---- MODULE Spec2Model ----
(***************************************************************************)
(* The job queues and hardware managers of Threads Ops.                     *)
(*                                                                         *)
(*  - the main-process outbox, electron/queue/JobQueue.ts: rows of the     *)
(*    outbox_jobs table, the interval dispatcher, the addJob / retryJob /  *)
(*    clearDeadJobs IPC handlers.  Every await of the source is a          *)
(*    suspension point: one action runs a database statement together with *)
(*    the code that follows it up to the next await.                       *)
(*  - the in-memory queue behind the Job Queue view, src/lib/jobQueue.ts.  *)
(*  - the retry classifier of the main-process queue, and the label cache *)
(*    of PrinterManager and the scan history of ScannerManager            *)
(*    (electron/hardware).                                                 *)
(*                                                                         *)
(* The store is taken to work (statements fail only on the UNIQUE          *)
(* constraint).  Time is a counter that jumps to the next scheduled        *)
(* next_run_at; seconds in the main-process queue, milliseconds in the     *)
(* in-memory queue.                                                        *)
(***************************************************************************)
EXTENDS Integers, Sequences, FiniteSets, Bags, TLC

\* ------------------------------------------------------------------ bounds
MaxJobs == 3          \* job ids ever generated by the main-process addJob
NumKeys == 3          \* distinct idempotency keys callers of the main-process queue use
NumMemKeys == 2       \* distinct idempotency keys callers of the in-memory queue use
NumPasses == 3        \* dispatch passes (timer callbacks, processQueue calls) in flight
NumAdders == 2        \* addJob calls in flight
MaxExecs == 3         \* handler invocations in one behaviour, all passes in use
MaxSoloExecs == 8     \* handler invocations in one behaviour, one job and one pass
MaxMemJobs == 3       \* jobs ever added to the in-memory queue
MaxMemFails == 4      \* handler failures in one behaviour, several jobs
MaxMemSoloFails == 4  \* handler failures in one behaviour, one job
NumPrintCalls == 2    \* printLabel calls in flight
NumLabels == 2        \* distinct (orderId, idempotencyKey) pairs printed
MaxPrints == 3        \* labels sent to the printer in one behaviour
MaxHours == 36        \* how far the printer's clock runs
MaxScans == 1002      \* how long the scan history is let grow

\* ------------------------------------------------------- program constants
maxConcurrency == 2

backoffSchedule == <<60, 300, 900, 1800, 3600, 7200>>

\* JobQueueConfig defaults of the in-memory queue
maxAttempts == 6
backoffMultiplier == 2
maxBackoffMs == 1800000
jitterMs == 1000
concurrency == 2

\* PrinterManager: a cached print counts for 24 hours
cacheHours == 24
\* ScannerManager: the history is cut to its last 1000 events
maxScanHistory == 1000

JobIds == 1..MaxJobs
Keys == 1..NumKeys
Adders == 1..NumAdders

\* What processJob returns: success, a retryable failure, a non-retryable one; a
\* failure carries an error message.
Outcomes == {"ok", "retryable", "fatal"}
Messages == {"e1", "e2"}

\* How much of the queue one specification exercises: job ids generated, passes and
\* addJob calls in flight, handler invocations, keys and error messages in use, and
\* the outcomes of the 'queue:job-added' send, and whether a window is set to
\* receive 'queue:job-processed'.
Full == [jobs |-> MaxJobs, keys |-> NumKeys, passes |-> NumPasses, adders |-> 1, execs |-> MaxExecs,
         msgs |-> {"e1"}, sends |-> {TRUE}, window |-> FALSE]
Race == [jobs |-> MaxJobs - 1, keys |-> NumKeys - 1, passes |-> NumPasses - 1, adders |-> NumAdders,
         execs |-> MaxExecs - 1, msgs |-> Messages, sends |-> {TRUE},
         window |-> FALSE]
Solo == [jobs |-> 1, keys |-> 1, passes |-> 1, adders |-> 1, execs |-> MaxSoloExecs, msgs |-> {"e1"},
         sends |-> BOOLEAN, window |-> TRUE]
MemFull == [jobs |-> MaxMemJobs, keys |-> NumMemKeys, fails |-> MaxMemFails, jitters |-> {0}]
MemSolo == [jobs |-> 1, keys |-> 1, fails |-> MaxMemSoloFails, jitters |-> {0, jitterMs - 1}]
MemDuo == [jobs |-> MaxMemJobs - 1, keys |-> 1, fails |-> MaxMemFails, jitters |-> {0}]

VARIABLES
  rows,          \* outbox_jobs: job id -> row
  nextId,        \* the next job id addJob generates (ids follow created_at)
  now,           \* Date.now(), in seconds
  isProcessing,  \* JobQueue.isProcessing
  activeJobs,    \* JobQueue.activeJobs
  passes,        \* the dispatch passes in flight (a bag): where each stands in
                 \* processNextJob / processQueue, and what it holds
  adder,         \* each addJob call: where it stands
  addRet,        \* what addJob returned last
  retrier,       \* the retryJob call in flight
  retryRet,      \* what retryJob returned last
  hist,          \* per job: how many handler invocations ended ok / retryable / fatal
  opRetried,     \* jobs an operator retry has reset
  clearRet,      \* the count clearDeadJobs returned last
  event,         \* the payload of the last 'queue:job-processed' sent to the window
  stuck,         \* the rows a crash or a lost final UPDATE left in status 'running'
  \* the in-memory queue (src/lib/jobQueue.ts)
  jobs,          \* JobQueue.jobs, a Map: the jobs in insertion order
  memNextId,     \* the next job id generateJobId gives
  memNow,        \* Date.now(), in milliseconds
  running,       \* JobQueue.running
  memIsProcessing, \* JobQueue.isProcessing
  timers,        \* setTimeout(() => this.processQueue(), ...) callbacks pending
  memPass,       \* the processQueue call in flight: its snapshot and the job it runs
  memRet,        \* what addJob returned last
  memRetryRet,   \* what retryJob returned last
  memClearRet,   \* what clearDeadJobs returned last
  memExec,       \* the jobs handed to a handler so far, with their keys
  memFails       \* handler invocations that threw so far

VARIABLES
  clsIn,         \* the error handed to isRetryableError
  clsOut,        \* what isRetryableError returned for it
  labelCache,    \* PrinterManager.labelCache: cache key -> printedAt, in hours
  printCall,     \* each printLabel call: where it stands
  printRet,      \* what printLabel returned last
  printed,       \* per cache key, the times its label came out of the printer
  pNow,          \* Date.now() of the printer's process, in hours
  scanCount      \* ScannerManager.scanHistory.length

mainVars == <<rows, nextId, now, isProcessing, activeJobs, passes, adder, addRet,
              retrier, retryRet, hist, opRetried, clearRet, stuck, event>>
memVars == <<jobs, memNextId, memNow, running, memIsProcessing, timers, memPass,
             memRet, memRetryRet, memClearRet, memExec, memFails>>
hwVars == <<clsIn, clsOut, labelCache, printCall, printRet, printed, pNow, scanCount>>
queueVars == <<mainVars, memVars>>
vars == <<mainVars, memVars, hwVars>>

\* ------------------------------------------------------------- the store
IdlePass == [pc |-> "idle", loop |-> FALSE, job |-> 0, att |-> 0, res |-> "none", error |-> "null",
             nra |-> 0]
IdleAdder == [pc |-> "idle", key |-> 0, job |-> 0, nra |-> 0]
NoRet == [success |-> TRUE, jobId |-> 0, key |-> 0, error |-> "none"]
IdleRetrier == [pc |-> "idle", job |-> 0, nra |-> 0]
NoHist == [ok |-> 0, retryable |-> 0, fatal |-> 0]
NoEvent == [jobId |-> 0, status |-> "none"]

Min(S) == CHOOSE x \in S : \A y \in S : x <= y

\* SELECT * FROM outbox_jobs WHERE idempotency_key = ? (0: no row)
getJobByIdempotencyKey(r, key) ==
  LET hit == {j \in DOMAIN r : r[j].key = key}
  IN IF hit = {} THEN 0 ELSE Min(hit)

\* A SELECT that also takes up rows left in status 'running'.
getNextJobOrStuck(r, t) ==
  LET due == {j \in DOMAIN r : r[j].status \in {"queued", "running"} /\ r[j].nra <= t}
  IN IF due = {} THEN 0 ELSE Min(due)

\* SELECT ... WHERE status = 'queued' AND next_run_at <= now ORDER BY created_at LIMIT 1
getNextJobToProcess(r, t) ==
  LET due == {j \in DOMAIN r : r[j].status = "queued" /\ r[j].nra <= t}
  IN IF due = {} THEN 0 ELSE Min(due)

\* UPDATE outbox_jobs SET status = ?, error_message = ? WHERE id = ?
updateJobStatus(r, id, status, err) ==
  IF id \in DOMAIN r
  THEN [r EXCEPT ![id].status = status, ![id].err = err]
  ELSE r

\* An updateJobForRetry that parks the row in status 'failed' until its retry is due.
updateJobAsFailed(r, id, attempts, nextRunAt, err) ==
  IF id \in DOMAIN r
  THEN [r EXCEPT ![id].status = "failed", ![id].attempts = attempts,
                 ![id].nra = nextRunAt, ![id].err = err]
  ELSE r

\* UPDATE outbox_jobs SET status = 'queued', attempts = ?, next_run_at = ?, error_message = ? WHERE id = ?
updateJobForRetry(r, id, attempts, nextRunAt, err) ==
  IF id \in DOMAIN r
  THEN [r EXCEPT ![id].status = "queued", ![id].attempts = attempts,
                 ![id].nra = nextRunAt, ![id].err = err]
  ELSE r

\* The passes in flight at one of the places pcs, holding job j.
PassesAt(pcs, j) ==
  LET S == {r \in BagToSet(passes) : r.pc \in pcs /\ r.job = j}
  IN BagCardinality([r \in S |-> passes[r]])

\* Handler invocations of job j that have ended, and those begun.
Ended(j) == hist[j].ok + hist[j].retryable + hist[j].fatal
Execs(j) == Ended(j) + PassesAt({"handler"}, j)

RECURSIVE SumEnded(_)
SumEnded(S) == IF S = {} THEN 0 ELSE LET j == Min(S) IN Ended(j) + SumEnded(S \ {j})

Busy == BagCardinality(passes)
\* Room for one more pass, and for the handler invocation it may make.
CanStart(L) ==
  /\ Busy < L.passes
  /\ SumEnded(JobIds) + Busy < L.execs

\* Pass r moves on to r2, or ends.
Move(r, r2) ==
  IF r2.pc = "idle"
  THEN passes (-) SetToBag({r})
  ELSE (passes (-) SetToBag({r})) (+) SetToBag({r2})

MainInit ==
  /\ rows = << >>
  /\ nextId = 1
  /\ now = 0
  /\ isProcessing = FALSE
  /\ activeJobs = {}
  /\ passes = EmptyBag
  /\ adder = [a \in Adders |-> IdleAdder]
  /\ addRet = NoRet
  /\ retrier = IdleRetrier
  /\ retryRet = "none"
  /\ hist = [j \in JobIds |-> NoHist]
  /\ opRetried = {}
  /\ clearRet = 0
  /\ stuck = {}
  /\ event = NoEvent

\* --------------------------------------------------------------- addJob
\* addJob(jobData) (IPC 'queue:add-job') up to its INSERT: the lookup by idempotency
\* key answers.  A row with the key: return its id.  None: build the job (its id and
\* created_at are taken here) and issue the INSERT.  Callers pass status 'queued',
\* attempts 0 and next_run_at = now.
AddLookup(L, a, key) ==
  /\ adder[a].pc = "idle"
  /\ \A b \in Adders : b < a => adder[b].pc # "idle"
  /\ Cardinality({b \in Adders : adder[b].pc # "idle"}) < L.adders
  /\ LET existingJob == getJobByIdempotencyKey(rows, key)
     IN IF existingJob # 0
        THEN /\ addRet' = [success |-> TRUE, jobId |-> existingJob, key |-> key, error |-> "none"]
             /\ UNCHANGED <<adder, nextId>>
        ELSE /\ nextId <= L.jobs
             /\ adder' = [adder EXCEPT ![a] = [pc |-> "insert", key |-> key, job |-> nextId, nra |-> now]]
             /\ nextId' = nextId + 1
             /\ UNCHANGED addRet
  /\ UNCHANGED <<event, stuck, clearRet, rows, now, isProcessing, activeJobs, passes, retrier, retryRet, hist, opRetried>>
  /\ UNCHANGED <<memVars, hwVars>>

\* The INSERT runs.  idempotency_key is UNIQUE: with a row of that key present the
\* statement throws, and the catch of addJob returns success false with no job id.
\* After the INSERT, still inside the try, 'queue:job-added' is sent to the renderer:
\* sent is whether mainWindow.webContents.send returned (it throws on a destroyed
\* window), and a throw lands in the same catch.
AddInsert(a, sent) ==
  /\ adder[a].pc = "insert"
  /\ IF getJobByIdempotencyKey(rows, adder[a].key) # 0
     THEN /\ addRet' = [success |-> FALSE, jobId |-> 0, key |-> adder[a].key,
                        error |-> "constraint"]
          /\ UNCHANGED rows
     ELSE /\ rows' = rows @@ (adder[a].job :>
                [key |-> adder[a].key, status |-> "queued", attempts |-> 0,
                 nra |-> adder[a].nra, err |-> "null"])
          /\ addRet' = IF sent
                       THEN [success |-> TRUE, jobId |-> adder[a].job,
                             key |-> adder[a].key, error |-> "none"]
                       ELSE [success |-> FALSE, jobId |-> 0,
                             key |-> adder[a].key, error |-> "send"]
  /\ adder' = [adder EXCEPT ![a] = IdleAdder]
  /\ UNCHANGED <<event, stuck, clearRet, nextId, now, isProcessing, activeJobs, passes, retrier, retryRet, hist, opRetried>>
  /\ UNCHANGED <<memVars, hwVars>>

\* ----------------------------------------------------------- dispatching
\* while (activeJobs.size < maxConcurrency) of processQueue, after one round (or the
\* end of a timer callback, which has no loop).
LoopBack(L, r, active) ==
  IF r.loop /\ Cardinality(active) < maxConcurrency
     /\ SumEnded(JobIds) + Busy <= L.execs
  THEN [IdlePass EXCEPT !.pc = "peek", !.loop = TRUE]
  ELSE IdlePass

\* The setInterval callback of startProcessing: its guard, then processNextJob
\* issues its SELECT.
Tick(L) ==
  /\ ~isProcessing
  /\ Cardinality(activeJobs) < maxConcurrency
  /\ CanStart(L)
  /\ passes' = passes (+) SetToBag({[IdlePass EXCEPT !.pc = "select"]})
  /\ UNCHANGED <<event, stuck, clearRet, rows, nextId, now, isProcessing, activeJobs, adder, addRet,
                 retrier, retryRet, hist, opRetried>>
  /\ UNCHANGED <<memVars, hwVars>>

\* processQueue() is called: the loop guard, then its own SELECT is issued.
ProcessQueue(L) ==
  /\ Cardinality(activeJobs) < maxConcurrency
  /\ CanStart(L)
  /\ passes' = passes (+) SetToBag({[IdlePass EXCEPT !.pc = "peek", !.loop = TRUE]})
  /\ UNCHANGED <<event, stuck, clearRet, rows, nextId, now, isProcessing, activeJobs, adder, addRet,
                 retrier, retryRet, hist, opRetried>>
  /\ UNCHANGED <<memVars, hwVars>>

\* processQueue's SELECT answers: no due job ends the loop, a due job calls
\* processNextJob, which issues its own SELECT.
PeekDone(r) ==
  /\ r.pc = "peek"
  /\ passes' = Move(r, IF getNextJobToProcess(rows, now) = 0
                       THEN IdlePass ELSE [r EXCEPT !.pc = "select"])
  /\ UNCHANGED <<event, stuck, clearRet, rows, nextId, now, isProcessing, activeJobs, adder, addRet,
                 retrier, retryRet, hist, opRetried>>
  /\ UNCHANGED <<memVars, hwVars>>

\* processNextJob's SELECT answers.  No job: return.  A job: set isProcessing, add it
\* to activeJobs and issue the UPDATE to 'running'.
SelectDone(L, r) ==
  /\ r.pc = "select"
  /\ LET nextJob == getNextJobToProcess(rows, now)
     IN IF nextJob = 0
        THEN /\ passes' = Move(r, LoopBack(L, r, activeJobs))
             /\ UNCHANGED <<isProcessing, activeJobs>>
        ELSE /\ isProcessing' = TRUE
             /\ activeJobs' = activeJobs \cup {nextJob}
             /\ passes' = Move(r, [r EXCEPT !.pc = "mark", !.job = nextJob,
                                            !.att = rows[nextJob].attempts])
  /\ UNCHANGED <<event, stuck, clearRet, rows, nextId, now, adder, addRet, retrier, retryRet, hist, opRetried>>
  /\ UNCHANGED <<memVars, hwVars>>

\* The UPDATE to 'running' runs (WHERE id = ?, whatever the row's status), and
\* processJob hands the job to its handler.
MarkRunning(r) ==
  /\ r.pc = "mark"
  /\ rows' = updateJobStatus(rows, r.job, "running", "null")
  /\ passes' = Move(r, [r EXCEPT !.pc = "handler"])
  /\ UNCHANGED <<event, stuck, clearRet, nextId, now, isProcessing, activeJobs, adder, addRet,
                 retrier, retryRet, hist, opRetried>>
  /\ UNCHANGED <<memVars, hwVars>>

\* processJob returns; processNextJob picks its branch from the result and from the
\* attempts of the row as it was selected, and issues the UPDATE.
HandlerDone(r, outcome, msg) ==
  /\ r.pc = "handler"
  /\ hist' = [hist EXCEPT ![r.job][outcome] = @ + 1]
  /\ passes' = Move(r, [r EXCEPT !.pc = "write", !.res = outcome,
                !.error = IF outcome = "ok" THEN "null" ELSE msg,
                !.nra = IF outcome = "retryable" /\ r.att < Len(backoffSchedule)
                        THEN now + backoffSchedule[r.att + 1]
                        ELSE 0])
  /\ UNCHANGED <<event, stuck, clearRet, rows, nextId, now, isProcessing, activeJobs, adder, addRet,
                 retrier, retryRet, opRetried>>
  /\ UNCHANGED <<memVars, hwVars>>

\* The row processNextJob writes for a result.
processNextJobWrite(rs, id, att, res, error, nextRunAt) ==
  IF res = "ok"
  THEN updateJobStatus(rs, id, "succeeded", "null")
  ELSE IF res = "retryable" /\ att < Len(backoffSchedule)
       THEN updateJobForRetry(rs, id, att + 1, nextRunAt, error)
       ELSE updateJobStatus(rs, id, "dead", error)

\* The payload of 'queue:job-processed' that processNextJob sends for pass r when a
\* window is set: the status is taken from the handler's result.
jobProcessed(L, r) ==
  IF L.window
  THEN [jobId |-> r.job,
        status |-> IF r.res = "ok" THEN "succeeded"
                   ELSE IF r.res = "retryable" THEN "retrying" ELSE "dead"]
  ELSE event

\* A processNextJob that cleans up after a success only.
WriteDoneOkOnly(L, r) ==
  /\ r.pc = "write"
  /\ rows' = processNextJobWrite(rows, r.job, r.att, r.res, r.error, r.nra)
  /\ activeJobs' = IF r.res = "ok" THEN activeJobs \ {r.job} ELSE activeJobs
  /\ isProcessing' = IF r.res = "ok" THEN FALSE ELSE isProcessing
  /\ passes' = Move(r, LoopBack(L, r, activeJobs'))
  /\ event' = jobProcessed(L, r)
  /\ UNCHANGED <<stuck, clearRet, nextId, now, adder, addRet, retrier, retryRet, hist, opRetried>>
  /\ UNCHANGED <<memVars, hwVars>>

\* The final UPDATE runs; the job leaves activeJobs and isProcessing is reset.  Then
\* 'queue:job-processed' is sent: a throw of the send lands in the catch of
\* processNextJob, which logs and resets isProcessing again, so it changes nothing.
WriteDone(L, r) ==
  /\ r.pc = "write"
  /\ rows' = processNextJobWrite(rows, r.job, r.att, r.res, r.error, r.nra)
  /\ activeJobs' = activeJobs \ {r.job}
  /\ isProcessing' = FALSE
  /\ passes' = Move(r, LoopBack(L, r, activeJobs \ {r.job}))
  /\ event' = jobProcessed(L, r)
  /\ UNCHANGED <<stuck, clearRet, nextId, now, adder, addRet, retrier, retryRet, hist, opRetried>>
  /\ UNCHANGED <<memVars, hwVars>>

\* ------------------------------------------------ retryJob, clearDeadJobs
\* retryJob(jobId) (IPC 'queue:retry-job') up to its UPDATE: getJobById answers not
\* found, not dead, or dead, and then updateJobForRetry is issued.
RetryLookup(j) ==
  /\ retrier.pc = "idle"
  /\ IF j \notin DOMAIN rows
     THEN retryRet' = "not_found" /\ UNCHANGED retrier
     ELSE IF rows[j].status = "dead"
          THEN retrier' = [pc |-> "update", job |-> j, nra |-> now] /\ UNCHANGED retryRet
          ELSE retryRet' = "not_retryable" /\ UNCHANGED retrier
  /\ UNCHANGED <<event, stuck, clearRet, rows, nextId, now, isProcessing, activeJobs, passes, adder, addRet,
                 hist, opRetried>>
  /\ UNCHANGED <<memVars, hwVars>>

\* updateJobForRetry(jobId, 0, now) runs; retryJob returns success.
RetryUpdate ==
  /\ retrier.pc = "update"
  /\ rows' = updateJobForRetry(rows, retrier.job, 0, retrier.nra, "null")
  /\ opRetried' = opRetried \cup {retrier.job}
  /\ retrier' = IdleRetrier
  /\ retryRet' = "ok"
  /\ UNCHANGED <<event, stuck, clearRet, nextId, now, isProcessing, activeJobs, passes, adder, addRet, hist>>
  /\ UNCHANGED <<memVars, hwVars>>

\* A clearDeadJobs that purges every finished job, succeeded ones too.
clearFinishedJobs ==
  /\ rows' = [j \in {i \in DOMAIN rows : rows[i].status \notin {"dead", "succeeded"}} |-> rows[j]]
  /\ clearRet' = Cardinality({i \in DOMAIN rows : rows[i].status \in {"dead", "succeeded"}})
  /\ UNCHANGED <<event, stuck, nextId, now, isProcessing, activeJobs, passes, adder, addRet,
                 retrier, retryRet, hist, opRetried>>
  /\ UNCHANGED <<memVars, hwVars>>

\* clearDeadJobs(): DELETE FROM outbox_jobs WHERE status = 'dead'; the count returned
\* is the statement's number of changes.
clearDeadJobs ==
  /\ rows' = [j \in {i \in DOMAIN rows : rows[i].status # "dead"} |-> rows[j]]
  /\ clearRet' = Cardinality({i \in DOMAIN rows : rows[i].status = "dead"})
  /\ UNCHANGED <<event, stuck, nextId, now, isProcessing, activeJobs, passes, adder, addRet,
                 retrier, retryRet, hist, opRetried>>
  /\ UNCHANGED <<memVars, hwVars>>

\* The final UPDATE fails: updateJobStatus / updateJobForRetry log the error and
\* return, so processNextJob goes on as after a write and the row keeps the status
\* 'running'.  The row is left behind when no other call in flight holds the job.
WriteLost(L, r) ==
  /\ r.pc = "write"
  /\ activeJobs' = activeJobs \ {r.job}
  /\ isProcessing' = FALSE
  /\ passes' = Move(r, LoopBack(L, r, activeJobs \ {r.job}))
  /\ stuck' = IF /\ r.job \in DOMAIN rows
                 /\ rows[r.job].status = "running"
                 /\ PassesAt({"mark", "handler", "write"}, r.job) = 1
                 /\ retrier.job # r.job
              THEN stuck \cup {r.job}
              ELSE stuck
  /\ event' = jobProcessed(L, r)
  /\ UNCHANGED <<clearRet, rows, nextId, now, adder, addRet, retrier, retryRet, hist, opRetried>>
  /\ UNCHANGED <<memVars, hwVars>>

\* The process dies and the application starts again: every call in flight is gone,
\* the new JobQueue has isProcessing false and no active job, and initialize()
\* creates the table if it is missing and starts the timer.  The rows are as the
\* crash left them.
Crash ==
  /\ isProcessing' = FALSE
  /\ activeJobs' = {}
  /\ passes' = EmptyBag
  /\ adder' = [a \in Adders |-> IdleAdder]
  /\ retrier' = IdleRetrier
  /\ stuck' = stuck \cup {j \in DOMAIN rows : rows[j].status = "running"}
  /\ UNCHANGED <<event, clearRet, rows, nextId, now, addRet, retryRet, hist, opRetried>>
  /\ UNCHANGED <<memVars, hwVars>>

\* Time passes up to the next_run_at of a queued row.
TimePasses ==
  /\ \E j \in DOMAIN rows :
       /\ rows[j].status = "queued"
       /\ rows[j].nra > now
       /\ now' = rows[j].nra
  /\ UNCHANGED <<event, stuck, clearRet, rows, nextId, isProcessing, activeJobs, passes, adder, addRet,
                 retrier, retryRet, hist, opRetried>>
  /\ UNCHANGED <<memVars, hwVars>>

\* Keys are interchangeable: callers take a new one in order, so the n-th job ever
\* built carries one of the first n keys.
KeysInUse(L, n) == 1..Min({L.keys, n})

MainNext(L) ==
  \/ \E a \in Adders, key \in KeysInUse(L, nextId) : AddLookup(L, a, key)
  \/ \E a \in Adders, sent \in L.sends : AddInsert(a, sent)
  \/ Tick(L)
  \/ ProcessQueue(L)
  \/ \E r \in BagToSet(passes) : PeekDone(r)
  \/ \E r \in BagToSet(passes) : SelectDone(L, r)
  \/ \E r \in BagToSet(passes) : MarkRunning(r)
  \/ \E r \in BagToSet(passes), outcome \in Outcomes, msg \in L.msgs : HandlerDone(r, outcome, msg)
  \/ \E r \in BagToSet(passes) : WriteDone(L, r)
  \/ \E j \in JobIds : RetryLookup(j)
  \/ RetryUpdate
  \/ clearDeadJobs
  \/ TimePasses

\* ===================================================== the in-memory queue
IdleMemPass == [pc |-> "idle", job |-> 0, rest |-> << >>, at |-> 0]

MemInit ==
  /\ jobs = << >>
  /\ memNextId = 1
  /\ memNow = 0
  /\ running = {}
  /\ memIsProcessing = FALSE
  /\ timers = 0
  /\ memPass = IdleMemPass
  /\ memRet = 0
  /\ memRetryRet = "none"
  /\ memClearRet = 0
  /\ memExec = {}
  /\ memFails = 0

\* The place of job id in the Map's order (0: not in the Map).
IndexOf(js, id) ==
  LET hit == {i \in DOMAIN js : js[i].id = id}
  IN IF hit = {} THEN 0 ELSE Min(hit)

\* findJobByIdempotencyKey: the first job of the Map with the key (0: none).
findJobByIdempotencyKey(js, key) ==
  LET hit == {i \in DOMAIN js : js[i].key = key}
  IN IF hit = {} THEN 0 ELSE Min(hit)

\* getJobs(status): the ids of the jobs in that status, in the Map's order.
RECURSIVE getJobs(_, _)
getJobs(js, status) ==
  IF js = << >> THEN << >>
  ELSE (IF Head(js).status = status THEN <<Head(js).id>> ELSE << >>)
       \o getJobs(Tail(js), status)

RECURSIVE Pow(_, _)
Pow(b, n) == IF n = 0 THEN 1 ELSE b * Pow(b, n - 1)

\* calculateNextRunTime(attempts), jitter being Math.random() * jitterMs: a number
\* from 0 up to, not including, jitterMs
calculateNextRunTime(attempts, jitter) ==
  LET raw == Pow(backoffMultiplier, attempts) * 1000
      baseDelay == IF raw < maxBackoffMs THEN raw ELSE maxBackoffMs
  IN memNow + baseDelay + jitter

\* scheduleProcessing(): arm a timer unless a pass is in flight.
scheduleProcessing(t) == IF memIsProcessing THEN t ELSE t + 1

\* addJob(type, payload, idempotencyKey): no await inside, one step.
MemAddJob(L, key) ==
  /\ LET e == findJobByIdempotencyKey(jobs, key)
     IN IF e # 0 /\ jobs[e].status = "succeeded"
        THEN /\ memRet' = jobs[e].id
             /\ UNCHANGED <<jobs, memNextId, timers>>
        ELSE /\ memNextId <= L.jobs
             /\ jobs' = Append(jobs, [id |-> memNextId, key |-> key, status |-> "queued",
                                      attempts |-> 0, nra |-> memNow, err |-> "none"])
             /\ memNextId' = memNextId + 1
             /\ timers' = scheduleProcessing(timers)
             /\ memRet' = memNextId
  /\ UNCHANGED <<memClearRet, memNow, running, memIsProcessing, memPass, memRetryRet, memExec, memFails>>
  /\ UNCHANGED <<mainVars, hwVars>>

\* A retryJob that leaves the last error on the job.
MemRetryJobKeepsError(id, jitter) ==
  /\ LET i == IndexOf(jobs, id)
     IN IF i = 0 \/ (i # 0 /\ jobs[i].status # "failed")
        THEN /\ memRetryRet' = "false"
             /\ UNCHANGED <<jobs, timers>>
        ELSE /\ jobs' = [jobs EXCEPT ![i].status = "queued",
                                     ![i].attempts = @ + 1,
                                     ![i].nra = calculateNextRunTime(jobs[i].attempts + 1, jitter)]
             /\ timers' = scheduleProcessing(timers)
             /\ memRetryRet' = "true"
  /\ UNCHANGED <<memClearRet, memNextId, memNow, running, memIsProcessing, memPass, memRet, memExec, memFails>>
  /\ UNCHANGED <<mainVars, hwVars>>

\* retryJob(jobId)
MemRetryJob(id, jitter) ==
  /\ LET i == IndexOf(jobs, id)
     IN IF i = 0 \/ (i # 0 /\ jobs[i].status # "failed")
        THEN /\ memRetryRet' = "false"
             /\ UNCHANGED <<jobs, timers>>
        ELSE IF jobs[i].attempts >= maxAttempts
             THEN /\ jobs' = [jobs EXCEPT ![i].status = "dead"]
                  /\ memRetryRet' = "false"
                  /\ UNCHANGED timers
             ELSE /\ jobs' = [jobs EXCEPT ![i].status = "queued",
                                          ![i].attempts = @ + 1,
                                          ![i].nra = calculateNextRunTime(jobs[i].attempts + 1, jitter),
                                          ![i].err = "none"]
                  /\ timers' = scheduleProcessing(timers)
                  /\ memRetryRet' = "true"
  /\ UNCHANGED <<memClearRet, memNextId, memNow, running, memIsProcessing, memPass, memRet, memExec, memFails>>
  /\ UNCHANGED <<mainVars, hwVars>>

\* The jobs of a sequence that are not dead, in order.
RECURSIVE NotDead(_)
NotDead(js) ==
  IF js = << >> THEN << >>
  ELSE (IF Head(js).status = "dead" THEN << >> ELSE <<Head(js)>>) \o NotDead(Tail(js))

\* The number of dead jobs of a sequence: the deletions clearDeadJobs counts.
RECURSIVE CountDead(_)
CountDead(js) ==
  IF js = << >> THEN 0
  ELSE (IF Head(js).status = "dead" THEN 1 ELSE 0) + CountDead(Tail(js))

\* clearDeadJobs()
MemClearDeadJobs ==
  /\ jobs' = NotDead(jobs)
  /\ memClearRet' = CountDead(jobs)
  /\ UNCHANGED <<memNextId, memNow, running, memIsProcessing, timers, memPass,
                 memRet, memRetryRet, memExec, memFails>>
  /\ UNCHANGED <<mainVars, hwVars>>

\* The for loop of processQueue from the ids q of its snapshot on, the due test
\* being against the pass's own now: the index of the first job it hands to
\* processJob (0: the loop ends).
RECURSIVE FirstToRun(_, _, _, _)
FirstToRun(js, q, at, k) ==
  IF k > Len(q) THEN 0
  ELSE LET i == IndexOf(js, q[k])
       IN IF i # 0 /\ js[i].nra <= at THEN k ELSE FirstToRun(js, q, at, k + 1)

\* A processQueue whose finally block resets isProcessing and arms no timer.
ContinueNoRearm(js, run, q, at, tm) ==
  LET k == IF Cardinality(run) >= concurrency THEN 0 ELSE FirstToRun(js, q, at, 1)
  IN IF k # 0
     THEN LET i == IndexOf(js, q[k])
          IN /\ running' = run \cup {q[k]}
             /\ jobs' = [js EXCEPT ![i].status = "running"]
             /\ memExec' = memExec \cup {[id |-> q[k], key |-> js[i].key]}
             /\ memPass' = [pc |-> "exec", job |-> q[k], rest |-> SubSeq(q, k + 1, Len(q)), at |-> at]
             /\ memIsProcessing' = TRUE
             /\ timers' = tm
     ELSE /\ running' = run
          /\ jobs' = js
          /\ memExec' = memExec
          /\ memPass' = IdleMemPass
          /\ memIsProcessing' = FALSE
          /\ timers' = tm

\* The loop goes on over q: processJob starts the first due job and suspends in its
\* handler, or the loop ends and the finally block runs.
Continue(js, run, q, at, tm) ==
  LET k == IF Cardinality(run) >= concurrency THEN 0 ELSE FirstToRun(js, q, at, 1)
  IN IF k # 0
     THEN LET i == IndexOf(js, q[k])
          IN /\ running' = run \cup {q[k]}
             /\ jobs' = [js EXCEPT ![i].status = "running"]
             /\ memExec' = memExec \cup {[id |-> q[k], key |-> js[i].key]}
             /\ memPass' = [pc |-> "exec", job |-> q[k], rest |-> SubSeq(q, k + 1, Len(q)), at |-> at]
             /\ memIsProcessing' = TRUE
             /\ timers' = tm
     ELSE /\ running' = run
          /\ jobs' = js
          /\ memExec' = memExec
          /\ memPass' = IdleMemPass
          /\ memIsProcessing' = FALSE
          /\ timers' = IF getJobs(js, "queued") # << >> THEN tm + 1 ELSE tm

\* A pending timer fires: processQueue().
MemTimerFire ==
  /\ timers > 0
  /\ IF memIsProcessing \/ Cardinality(running) >= concurrency
     THEN /\ timers' = timers - 1
          /\ UNCHANGED <<jobs, running, memIsProcessing, memPass, memExec>>
     ELSE Continue(jobs, running, getJobs(jobs, "queued"), memNow, timers - 1)
  /\ UNCHANGED <<memClearRet, memNextId, memNow, memRet, memRetryRet, memFails>>
  /\ UNCHANGED <<mainVars, hwVars>>

\* A processJob whose catch block records the failure and leaves the status alone.
processJobKeepsStatus(job, ok, jitter) ==
  IF ok
  THEN [job EXCEPT !.status = "succeeded"]
  ELSE [job EXCEPT !.attempts = @ + 1, !.err = "error"]

\* A processJob with no dead branch: a failure always leaves the job failed.
processJobNeverDead(job, ok, jitter) ==
  IF ok
  THEN [job EXCEPT !.status = "succeeded"]
  ELSE [job EXCEPT !.attempts = @ + 1, !.err = "error", !.status = "failed",
                   !.nra = calculateNextRunTime(job.attempts + 1, jitter)]

\* What processJob writes on its job when executeJob returns or throws.
processJobResult(job, ok, jitter) ==
  IF ok
  THEN [job EXCEPT !.status = "succeeded"]
  ELSE IF job.attempts + 1 >= maxAttempts
       THEN [job EXCEPT !.attempts = @ + 1, !.err = "error", !.status = "dead"]
       ELSE [job EXCEPT !.attempts = @ + 1, !.err = "error", !.status = "failed",
                        !.nra = calculateNextRunTime(job.attempts + 1, jitter)]

\* executeJob returns or throws: processJob writes the job, and the loop goes on.
MemExecDone(L, ok, jitter) ==
  /\ memPass.pc = "exec"
  /\ IF ok THEN UNCHANGED memFails
     ELSE memFails < L.fails /\ memFails' = memFails + 1
  /\ LET i == IndexOf(jobs, memPass.job)
         js == IF i = 0 THEN jobs
               ELSE [jobs EXCEPT ![i] = processJobResult(jobs[i], ok, jitter)]
     IN Continue(js, running \ {memPass.job}, memPass.rest, memPass.at, timers)
  /\ UNCHANGED <<memClearRet, memNextId, memNow, memRet, memRetryRet>>
  /\ UNCHANGED <<mainVars, hwVars>>

\* Time passes up to the nextRunAt of a queued job.
MemTimePasses ==
  /\ \E i \in DOMAIN jobs :
       /\ jobs[i].status = "queued"
       /\ jobs[i].nra > memNow
       /\ memNow' = jobs[i].nra
  /\ UNCHANGED <<memClearRet, jobs, memNextId, running, memIsProcessing, timers, memPass,
                 memRet, memRetryRet, memExec, memFails>>
  /\ UNCHANGED <<mainVars, hwVars>>

MemNext(L) ==
  \/ \E key \in KeysInUse(L, memNextId) : MemAddJob(L, key)
  \/ \E id \in 1..MaxMemJobs, jitter \in L.jitters : MemRetryJob(id, jitter)
  \/ MemClearDeadJobs
  \/ MemTimerFire
  \/ \E ok \in BOOLEAN, jitter \in L.jitters : MemExecDone(L, ok, jitter)
  \/ MemTimePasses

\* ============================================ isRetryableError (main process)
\* The substrings isRetryableError looks for.  A message is taken as the set of these
\* it includes: includes() is the only thing the function asks of it.
RetryMarkers == {"network", "timeout", "429", "rate limit", "500", "502", "503"}
FinalMarkers == {"401", "403", "400", "404"}
Markers == RetryMarkers \cup FinalMarkers

\* The values a catch block hands over: nothing (undefined, null or another falsy
\* value), an object with a message, or a value without one, read by toString().
MissingError == [missing |-> TRUE, hasMessage |-> FALSE, message |-> {}, text |-> {}]
Errors ==
  {MissingError}
  \cup {[missing |-> FALSE, hasMessage |-> TRUE, message |-> m, text |-> {}] : m \in SUBSET Markers}
  \cup {[missing |-> FALSE, hasMessage |-> FALSE, message |-> {}, text |-> t] : t \in SUBSET Markers}

\* A classifier that tests the client and authentication markers first.
isRetryableFinalFirst(error) ==
  IF error.missing THEN FALSE
  ELSE LET errorMessage == IF error.hasMessage THEN error.message ELSE error.text
       IN IF "401" \in errorMessage \/ "403" \in errorMessage THEN FALSE
          ELSE IF "400" \in errorMessage \/ "404" \in errorMessage THEN FALSE
          ELSE TRUE

\* isRetryableError(error)
isRetryableError(error) ==
  IF error.missing THEN FALSE
  ELSE LET errorMessage == IF error.hasMessage THEN error.message ELSE error.text
       IN IF "network" \in errorMessage \/ "timeout" \in errorMessage THEN TRUE
          ELSE IF "429" \in errorMessage \/ "rate limit" \in errorMessage THEN TRUE
          ELSE IF "500" \in errorMessage \/ "502" \in errorMessage \/ "503" \in errorMessage
               THEN TRUE
          ELSE IF "401" \in errorMessage \/ "403" \in errorMessage THEN FALSE
          ELSE IF "400" \in errorMessage \/ "404" \in errorMessage THEN FALSE
          ELSE TRUE

\* A handler's catch block classifies the error it caught.
Classify ==
  /\ clsOut = "none"
  /\ clsOut' = IF isRetryableError(clsIn) THEN "retryable" ELSE "final"
  /\ UNCHANGED <<clsIn, labelCache, printCall, printRet, printed, pNow, scanCount>>
  /\ UNCHANGED queueVars

ClassifyNext == Classify

\* ============================================================ PrinterManager
Labels == 1..NumLabels
PrintCalls == 1..NumPrintCalls
IdlePrint == [pc |-> "idle", key |-> 0]
NoPrintRet == [success |-> TRUE, key |-> 0, cached |-> FALSE]

RECURSIVE SumLen(_, _)
SumLen(f, S) == IF S = {} THEN 0 ELSE LET k == Min(S) IN Len(f[k]) + SumLen(f, S \ {k})

\* The labels sent to the printer so far and being sent.
Sends == SumLen(printed, Labels) + Cardinality({c \in PrintCalls : printCall[c].pc = "sending"})

\* printLabel(request) (IPC 'printer:print-label') up to its await of sendToPrinter:
\* a cache entry younger than 24 hours returns the cached label; otherwise the label
\* goes to the printer.  -1: no cache entry.
PrintStart(c, k) ==
  /\ printCall[c].pc = "idle"
  /\ IF labelCache[k] # -1 /\ pNow - labelCache[k] < cacheHours
     THEN /\ printRet' = [success |-> TRUE, key |-> k, cached |-> TRUE]
          /\ UNCHANGED printCall
     ELSE /\ Sends < MaxPrints
          /\ printCall' = [printCall EXCEPT ![c] = [pc |-> "sending", key |-> k]]
          /\ UNCHANGED printRet
  /\ UNCHANGED <<clsIn, clsOut, labelCache, printed, pNow, scanCount>>
  /\ UNCHANGED queueVars

\* sendToPrinter answers.  Printed: the cache entry is set and success returned.
\* Not printed: the error is returned and nothing cached.
PrintDone(c, ok) ==
  /\ printCall[c].pc = "sending"
  /\ LET k == printCall[c].key
     IN IF ok
        THEN /\ printed' = [printed EXCEPT ![k] = Append(@, pNow)]
             /\ labelCache' = [labelCache EXCEPT ![k] = pNow]
             /\ printRet' = [success |-> TRUE, key |-> k, cached |-> FALSE]
        ELSE /\ printRet' = [success |-> FALSE, key |-> k, cached |-> FALSE]
             /\ UNCHANGED <<printed, labelCache>>
  /\ printCall' = [printCall EXCEPT ![c] = IdlePrint]
  /\ UNCHANGED <<clsIn, clsOut, pNow, scanCount>>
  /\ UNCHANGED queueVars

\* Half a cache period passes.
PrinterTimePasses ==
  /\ pNow < MaxHours
  /\ pNow' = pNow + cacheHours \div 2
  /\ UNCHANGED <<clsIn, clsOut, labelCache, printCall, printRet, printed, scanCount>>
  /\ UNCHANGED queueVars

PrinterNext ==
  \/ \E c \in PrintCalls, k \in Labels : PrintStart(c, k)
  \/ \E c \in PrintCalls, ok \in BOOLEAN : PrintDone(c, ok)
  \/ PrinterTimePasses

\* ============================================================ ScannerManager
\* processScannedBarcode() with a barcode in the buffer (Enter, or the debounce
\* timer): the event is pushed and the history cut to its last 1000.
ScannerInput ==
  /\ scanCount' = IF scanCount + 1 > maxScanHistory THEN maxScanHistory ELSE scanCount + 1
  /\ UNCHANGED <<clsIn, clsOut, labelCache, printCall, printRet, printed, pNow>>
  /\ UNCHANGED queueVars

\* simulateScan(barcode, type) (IPC 'scanner:test-scan'): the event is pushed.
SimulateScan ==
  /\ scanCount < MaxScans
  /\ scanCount' = scanCount + 1
  /\ UNCHANGED <<clsIn, clsOut, labelCache, printCall, printRet, printed, pNow>>
  /\ UNCHANGED queueVars

\* manualScan(barcode, type): the event is pushed.
ManualScan ==
  /\ scanCount < MaxScans
  /\ scanCount' = scanCount + 1
  /\ UNCHANGED <<clsIn, clsOut, labelCache, printCall, printRet, printed, pNow>>
  /\ UNCHANGED queueVars

\* IPC 'scanner:clear-history'
ClearHistory ==
  /\ scanCount' = 0
  /\ UNCHANGED <<clsIn, clsOut, labelCache, printCall, printRet, printed, pNow>>
  /\ UNCHANGED queueVars

ScannerNext == ScannerInput \/ SimulateScan \/ ManualScan \/ ClearHistory

\* The hardware managers and the classifier as constructed.
HwStart ==
  /\ clsOut = "none"
  /\ labelCache = [k \in Labels |-> -1]
  /\ printCall = [c \in PrintCalls |-> IdlePrint]
  /\ printRet = NoPrintRet
  /\ printed = [k \in Labels |-> << >>]
  /\ pNow = 0
  /\ scanCount = 0

HwInit == HwStart /\ clsIn = MissingError

\* ------------------------------------------------------- specifications
\* The main-process queue with every pass in use.
Init == MainInit /\ MemInit /\ HwInit

SpecMain == Init /\ [][MainNext(Full)]_vars

\* The main-process queue with addJob calls racing.
SpecMainAdd == Init /\ [][MainNext(Race)]_vars

\* One job, one pass at a time: the life of a single job through its retries.
SpecMainSolo == Init /\ [][MainNext(Solo)]_vars

\* The in-memory queue.
SpecMem == Init /\ [][MemNext(MemFull)]_vars

\* The in-memory queue with one job: its life through failures and operator retries.
SpecMemSolo == Init /\ [][MemNext(MemSolo)]_vars

\* isRetryableError over every error a catch block can hand it.
ClassifyInit == MainInit /\ MemInit /\ HwStart /\ clsIn \in Errors

SpecClassify == ClassifyInit /\ [][ClassifyNext]_vars

\* PrinterManager.printLabel with calls in flight together.
SpecPrinter == Init /\ [][PrinterNext]_vars

\* ScannerManager's scan history.
SpecScanner == Init /\ [][ScannerNext]_vars

\* The in-memory queue under fair timers: a pending setTimeout callback fires and
\* executeJob, which awaits a timer of its own, returns.
SpecMemLive ==
  /\ Init
  /\ [][MemNext(MemDuo)]_vars
  /\ WF_vars(MemTimerFire)
  /\ WF_vars(\E ok \in BOOLEAN, jitter \in MemDuo.jitters : MemExecDone(MemDuo, ok, jitter))

\* The main-process queue where every call in flight goes on: each database
\* statement answers and each handler returns (a handler awaits its own timer or
\* request and processJob catches what it throws), so every kind of step of a pass
\* that stays possible is taken.  Timer ticks and IPC calls are under no obligation.
SpecMainLive ==
  /\ Init
  /\ [][MainNext(Race)]_vars
  /\ WF_vars(\E r \in BagToSet(passes) : PeekDone(r))
  /\ WF_vars(\E r \in BagToSet(passes) : SelectDone(Race, r))
  /\ WF_vars(\E r \in BagToSet(passes) : MarkRunning(r))
  /\ WF_vars(\E r \in BagToSet(passes), outcome \in Outcomes, msg \in Race.msgs :
               HandlerDone(r, outcome, msg))
  /\ WF_vars(\E r \in BagToSet(passes) : WriteDone(Race, r))

\* The main-process queue with crashes, restarts and lost writes.
CrashNext(L) ==
  \/ MainNext(L)
  \/ \E r \in BagToSet(passes) : WriteLost(L, r)
  \/ Crash

SpecMainCrash == Init /\ [][CrashNext(Race)]_vars

\* Both queues.  The main-process queue lives in the Electron main process and the
\* in-memory queue in the renderer; they share no state, so a behaviour here drives
\* one of them from its start and leaves the other as constructed.
BothNext(L, M) ==
  \/ \E a \in Adders, key \in KeysInUse(L, nextId) : MemInit /\ AddLookup(L, a, key)
  \/ \E a \in Adders, sent \in L.sends : MemInit /\ AddInsert(a, sent)
  \/ MemInit /\ Tick(L)
  \/ MemInit /\ ProcessQueue(L)
  \/ \E r \in BagToSet(passes) : MemInit /\ PeekDone(r)
  \/ \E r \in BagToSet(passes) : MemInit /\ SelectDone(L, r)
  \/ \E r \in BagToSet(passes) : MemInit /\ MarkRunning(r)
  \/ \E r \in BagToSet(passes), outcome \in Outcomes, msg \in L.msgs :
        MemInit /\ HandlerDone(r, outcome, msg)
  \/ \E r \in BagToSet(passes) : MemInit /\ WriteDone(L, r)
  \/ \E j \in JobIds : MemInit /\ RetryLookup(j)
  \/ MemInit /\ RetryUpdate
  \/ MemInit /\ clearDeadJobs
  \/ MemInit /\ TimePasses
  \/ \E key \in KeysInUse(M, memNextId) : MainInit /\ MemAddJob(M, key)
  \/ \E id \in 1..MaxMemJobs, jitter \in M.jitters : MainInit /\ MemRetryJob(id, jitter)
  \/ MainInit /\ MemClearDeadJobs
  \/ MainInit /\ MemTimerFire
  \/ \E ok \in BOOLEAN, jitter \in M.jitters : MainInit /\ MemExecDone(M, ok, jitter)
  \/ MainInit /\ MemTimePasses

SpecBoth == Init /\ [][BothNext(Race, MemFull)]_vars

\* ------------------------------------------------------------ properties
\* The ids of the jobs carrying key k, in the table and in the Map.
RowsOfKey(r, k) == {j \in DOMAIN r : r[j].key = k}
JobsOfKey(js, k) == {js[i].id : i \in {x \in DOMAIN js : js[x].key = k}}

Live == {"queued", "running", "failed"}

\* C1: in both queues, once a key has a succeeded job, addJob with that key creates
\* no further job, leaves the succeeded job as it is and returns its id.
C1_SucceededKeyAddsNoJob ==
  [][\A k \in Keys :
       /\ (\E j \in RowsOfKey(rows, k) : rows[j].status = "succeeded")
          => /\ RowsOfKey(rows', k) \subseteq RowsOfKey(rows, k)
             /\ (addRet' # addRet /\ adder' = adder /\ addRet'.key = k)
                => (addRet'.success /\ addRet'.jobId \in RowsOfKey(rows, k)
                    /\ rows' = rows)
       /\ (\E i \in DOMAIN jobs : jobs[i].key = k /\ jobs[i].status = "succeeded")
          => JobsOfKey(jobs', k) \subseteq JobsOfKey(jobs, k)
    ]_vars

\* C2: the in-memory queue never holds two jobs of one idempotency key that are both
\* non-terminal (queued, running or failed): addJob with the key of such a job
\* returns that job and adds none.
C2_OneLiveJobPerKey ==
  \A i, k \in DOMAIN jobs :
     (i # k /\ jobs[i].key = jobs[k].key)
       => (jobs[i].status \notin Live \/ jobs[k].status \notin Live)

\* C3: addJob of the main-process queue never returns success = false because of a
\* key collision: the call that loses the INSERT returns success with the winner's id.
C3_AddJobAlwaysSucceeds ==
  ~(addRet.success = FALSE /\ addRet.error = "constraint")

\* C4: a dispatch pass hands a job to its handler (its UPDATE to running has run)
\* only if the row was still queued when that UPDATE ran; a running job is not
\* dispatched a second time.
C4_RunningOnlyFromQueued ==
  [][\A j \in JobIds :
       PassesAt({"handler"}, j)' > PassesAt({"handler"}, j)
         => (j \in DOMAIN rows /\ rows[j].status = "queued")
    ]_vars

\* C5: in each queue at most `concurrency` (2) jobs are in status running.
C5_AtMostConcurrencyRunning ==
  /\ Cardinality({j \in DOMAIN rows : rows[j].status = "running"}) <= maxConcurrency
  /\ Cardinality({i \in DOMAIN jobs : jobs[i].status = "running"}) <= concurrency

\* C6: a job of the main-process queue whose every execution fails with a retryable
\* error is dead once its 6th failed execution is written, and its handler is not
\* invoked a 7th time, unless an operator retried it.
C6_DeadAfterSixFailures ==
  \A j \in JobIds :
     (j \notin opRetried /\ hist[j].ok = 0 /\ hist[j].fatal = 0)
       => /\ Execs(j) <= 6
          /\ (hist[j].retryable = 6 /\ PassesAt({"mark", "handler", "write"}, j) = 0
              /\ j \in DOMAIN rows)
             => rows[j].status = "dead"

\* C7: every job of the in-memory queue has attempts <= maxAttempts.
C7_AttemptsWithinMax ==
  \A i \in DOMAIN jobs : jobs[i].attempts <= maxAttempts

\* C8: a job of the main-process queue whose handler fails retryably k times and
\* then succeeds ends succeeded with attempts = k, its handler having been invoked
\* exactly k + 1 times.
C8_OneInvocationPerAttempt ==
  \A j \in JobIds :
     (j \notin opRetried /\ hist[j].fatal = 0 /\ hist[j].ok >= 1
      /\ PassesAt({"mark", "handler", "write"}, j) = 0 /\ j \in DOMAIN rows)
       => /\ rows[j].status = "succeeded"
          /\ rows[j].attempts = hist[j].retryable
          /\ Ended(j) = hist[j].retryable + 1

\* C9: a job of the in-memory queue whose handler failed below maxAttempts is written
\* back to queued: failed is not a status a job rests in.
C9_FailedJobRequeued ==
  \A i \in DOMAIN jobs : jobs[i].status # "failed"

\* C10: a job of the main-process queue whose handler failed with a non-retryable
\* error is dead after that one invocation and is not dispatched again, unless an
\* operator retried it.
C10_FatalIsDeadAtOnce ==
  \A j \in JobIds :
     (j \notin opRetried /\ hist[j].fatal >= 1
      /\ PassesAt({"mark", "handler", "write"}, j) = 0 /\ j \in DOMAIN rows)
       => rows[j].status = "dead"

\* C11: the k-th consecutive retryable failure of a job (k = 1..6, no operator retry)
\* schedules nextRunAt = failure time + backoffSchedule[k], strictly later than the
\* nextRunAt the job had, and a job is handed to its handler only once its stored
\* nextRunAt has passed.
C11_BackoffFollowsSchedule ==
  [][\A r \in BagToSet(passes) :
       /\ \A msg \in Messages :
            (/\ HandlerDone(r, "retryable", msg)
             /\ r.job \notin opRetried
             /\ hist[r.job].ok = 0 /\ hist[r.job].fatal = 0
             /\ hist[r.job].retryable < Len(backoffSchedule))
            => LET k == hist[r.job].retryable + 1
                   r2 == [r EXCEPT !.pc = "write", !.res = "retryable", !.error = msg,
                                   !.nra = now + backoffSchedule[k]]
               IN /\ BagIn(r2, passes')
                  /\ r.job \in DOMAIN rows => r2.nra > rows[r.job].nra
       /\ (MarkRunning(r) /\ r.job \in DOMAIN rows) => rows[r.job].nra <= now
    ]_vars

\* C12: retryJob on a dead job returns success with the job queued, attempts 0 and
\* nextRunAt <= now; on a job in another status it returns not-retryable and on an
\* unknown id not-found, changing nothing; a job that is not dead is never reset.
C12_RetryResetsDeadOnly ==
  [][/\ RetryUpdate
        => LET j == retrier.job
           IN /\ retryRet' = "ok"
              /\ j \in DOMAIN rows /\ rows[j].status = "dead"
              /\ j \in DOMAIN rows'
              /\ rows'[j].status = "queued"
              /\ rows'[j].attempts = 0
              /\ rows'[j].nra <= now'
     /\ \A j \in JobIds :
          RetryLookup(j)
            => /\ rows' = rows
               /\ j \notin DOMAIN rows => retryRet' = "not_found"
               /\ (j \in DOMAIN rows /\ rows[j].status # "dead")
                  => retryRet' = "not_retryable"
    ]_vars

\* C13: in the in-memory queue retryJob on a dead job returns true and leaves the
\* job queued with attempts 0 and nextRunAt = now.
C13_MemRetryRevivesDead ==
  [][\A id \in 1..MaxMemJobs, jitter \in {0, jitterMs - 1} :
       LET i == IndexOf(jobs, id)
       IN (MemRetryJob(id, jitter) /\ i # 0 /\ jobs[i].status = "dead")
            => /\ memRetryRet' = "true"
               /\ jobs'[i].status = "queued"
               /\ jobs'[i].attempts = 0
               /\ jobs'[i].nra = memNow
    ]_vars

\* C14: once a row of the main-process queue is succeeded, no step changes its
\* status or its attempts (nor removes it).
C14_SucceededIsFinal ==
  [][\A j \in DOMAIN rows :
       rows[j].status = "succeeded"
         => /\ j \in DOMAIN rows'
            /\ rows'[j].status = "succeeded"
            /\ rows'[j].attempts = rows[j].attempts
    ]_vars

\* C17: a failure to notify the renderer does not fail the operation: an addJob whose
\* INSERT has stored the row returns success with that row's id, and the rows are as
\* the operation wrote them.
C17_NotifyFailureIsSwallowed ==
  [][\A j \in JobIds :
       (j \notin DOMAIN rows /\ j \in DOMAIN rows')
         => /\ addRet'.success
            /\ addRet'.jobId = j
    ]_vars

\* C20: in both queues a dead job carries an error message, and the message does not
\* change for as long as the job stays dead.
C20_DeadKeepsItsError ==
  [][/\ \A j \in DOMAIN rows' :
          rows'[j].status = "dead"
            => /\ rows'[j].err # "null"
               /\ (j \in DOMAIN rows /\ rows[j].status = "dead")
                  => rows'[j].err = rows[j].err
     /\ \A i \in DOMAIN jobs' :
          jobs'[i].status = "dead"
            => /\ jobs'[i].err # "none"
               /\ \A k \in DOMAIN jobs :
                    (jobs[k].id = jobs'[i].id /\ jobs[k].status = "dead")
                      => jobs'[i].err = jobs[k].err
    ]_vars

\* C15: in both queues clearDeadJobs removes exactly the dead jobs, returns how many
\* it removed, and leaves every other job present and unchanged.
C15_ClearRemovesExactlyDead ==
  [][/\ clearDeadJobs
          => /\ DOMAIN rows' = {j \in DOMAIN rows : rows[j].status # "dead"}
             /\ \A j \in DOMAIN rows' : rows'[j] = rows[j]
             /\ clearRet' = Cardinality(DOMAIN rows \ DOMAIN rows')
     /\ MemClearDeadJobs
          => /\ \A i \in DOMAIN jobs :
                  (jobs[i].status = "dead") <=> (\A k \in DOMAIN jobs' : jobs'[k] # jobs[i])
             /\ \A k \in DOMAIN jobs' : \E i \in DOMAIN jobs : jobs'[k] = jobs[i]
             /\ Len(jobs') = Len(jobs) - memClearRet'
             /\ memClearRet' = Cardinality({i \in DOMAIN jobs : jobs[i].status = "dead"})
    ]_vars

\* C15's case: a clearDeadJobs that removed a dead job and kept another job, in the
\* main-process queue or in the in-memory queue.
C15_ClearedSome ==
  \/ clearRet >= 1 /\ DOMAIN rows # {}
  \/ memClearRet >= 1 /\ jobs # << >>

\* C16: in both queues the dispatcher selects only a job that is queued with
\* nextRunAt <= now, and no job created earlier is queued and due at the time it
\* selects: of the queued and due jobs the earliest created goes first.
C16_OldestDueFirst ==
  [][/\ \A q \in BagToSet(passes') :
          (q.pc = "mark" /\ CopiesIn(q, passes') > CopiesIn(q, passes))
            => /\ q.job \in DOMAIN rows
               /\ rows[q.job].status = "queued"
               /\ rows[q.job].nra <= now
               /\ \A j \in DOMAIN rows :
                    (rows[j].status = "queued" /\ rows[j].nra <= now) => q.job <= j
     /\ (memPass' # memPass /\ memPass'.pc = "exec")
          => LET b == IndexOf(jobs, memPass'.job)
             IN /\ b # 0
                /\ jobs[b].status = "queued"
                /\ jobs[b].nra <= memNow
                /\ \A i \in DOMAIN jobs :
                     (jobs[i].status = "queued" /\ jobs[i].nra <= memNow) => b <= i
    ]_vars

TickOpen == ~isProcessing /\ Cardinality(activeJobs) < maxConcurrency

\* A pass holds job j after a failed handler invocation, its final UPDATE pending.
Failing(j) == \E r \in BagToSet(passes) : r.pc = "write" /\ r.job = j /\ r.res # "ok"

C24_AttemptsCountsExecutions ==
  \A j \in DOMAIN rows :
     (PassesAt({"mark", "handler", "write"}, j) = 0 /\ j \notin opRetried)
       => rows[j].attempts = Ended(j)

\* C22: the status carried by every 'queue:job-processed' event of the main-process
\* queue is the state the row was written to: succeeded for a succeeded row, retrying
\* only for a row written back to queued, dead for a row marked dead.
C22_EventMatchesRow ==
  [][\A r \in BagToSet(passes) :
       (/\ r.pc = "write"
        /\ CopiesIn(r, passes') < CopiesIn(r, passes)
        /\ r.job \in DOMAIN rows'
        /\ rows' # rows
        /\ event'.jobId = r.job)
         => event'.status = IF rows'[r.job].status = "queued" THEN "retrying"
                             ELSE rows'[r.job].status
    ]_vars

\* C26: retryJob of the in-memory queue returns true for a failed job, which it sets
\* to queued with attempts one higher, nextRunAt recomputed from the backoff and the
\* error cleared; for an unknown id or a job in another status it returns false and
\* changes nothing.
C26_MemRetryOnlyFailed ==
  [][\A id \in 1..MaxMemJobs, jitter \in {0, jitterMs - 1} :
       MemRetryJob(id, jitter)
         => LET i == IndexOf(jobs, id)
            IN IF i # 0 /\ jobs[i].status = "failed"
               THEN LET n == jobs[i].attempts + 1
                        delay == Min({Pow(backoffMultiplier, n) * 1000, maxBackoffMs})
                    IN /\ memRetryRet' = "true"
                       /\ jobs' = [jobs EXCEPT ![i] = [id |-> id, key |-> jobs[i].key,
                                     status |-> "queued", attempts |-> n,
                                     nra |-> memNow + delay + jitter, err |-> "none"]]
               ELSE /\ memRetryRet' = "false"
                    /\ jobs' = jobs
    ]_vars

\* C26's case: retryJob returned true and its job waits, queued, for its backoff.
C26_RetriedJobWaits ==
  /\ memRetryRet = "true"
  /\ \E i \in DOMAIN jobs :
       /\ jobs[i].status = "queued"
       /\ jobs[i].attempts = 2
       /\ jobs[i].nra > memNow
       /\ jobs[i].err = "none"

C29_FailedBelowMax ==
  \A i \in DOMAIN jobs :
     jobs[i].status = "failed" => (1 <= jobs[i].attempts /\ jobs[i].attempts < maxAttempts)

\* C29's case: a job failed at its last attempt below maxAttempts.
C29_FailedAtLastAttempt ==
  \E i \in DOMAIN jobs : jobs[i].status = "failed" /\ jobs[i].attempts = maxAttempts - 1

C21_NoDuplicateLabel ==
  \A k \in Labels : \A i, j \in DOMAIN printed[k] :
     i < j => printed[k][j] - printed[k][i] >= cacheHours

\* C25: isRetryableError answers not retryable exactly for a missing error and for a
\* message that mentions 401, 403, 400 or 404 and none of network, timeout, 429, rate
\* limit, 500, 502, 503; every other message is retryable.
C25_ClassifierTable ==
  clsOut # "none"
    => LET m == IF clsIn.hasMessage THEN clsIn.message ELSE clsIn.text
       IN (clsOut = "final")
            <=> (clsIn.missing \/ (m \cap FinalMarkers # {} /\ m \cap RetryMarkers = {}))

\* C25's case: a message that mentions both a server error and an authentication
\* error has been classified.
C25_MixedMessageClassified ==
  /\ clsOut = "retryable"
  /\ ~clsIn.missing
  /\ clsIn.hasMessage
  /\ {"503", "401"} \subseteq clsIn.message

\* C27: the scan history never holds more than 1000 events.
C27_HistoryAtMostThousand ==
  scanCount <= maxScanHistory

====
